---------------------------- MODULE Spec2Model ----------------------------
(***************************************************************************)
(* State-machine model of the event archive ingestion pipeline of          *)
(* src/gh/archive.ts: parseArgs, download, decompress,                     *)
(* createArchiveDatabase, prepareInserts, loadEvents (processLine, flush)  *)
(* and main.                                                               *)
(*                                                                         *)
(* JavaScript values are tagged records; a JSON object is a function from  *)
(* its own keys to values, so an absent key and a present key differ.      *)
(* The store is the content of archive.db: one set of rows per table.      *)
(***************************************************************************)
EXTENDS Integers, Sequences, FiniteSets, TLC

(***************************************************************************)
(* JavaScript values and the language operations the code applies to them. *)
(***************************************************************************)
Undefined == [t |-> "undefined"]
Null == [t |-> "null"]
Str(s) == [t |-> "string", s |-> s]
Num(n) == [t |-> "number", n |-> n]
Bool(b) == [t |-> "boolean", b |-> b]
Obj(o) == [t |-> "object", o |-> o]
EmptyObj == Obj([k \in {} |-> Undefined])

\* v == null (true of null and of undefined): the test of `??` and of json().
IsNullish(v) == v.t \in {"undefined", "null"}

\* Faulty variant of OrNull: the value is passed on as it is, undefined included.
AsItIs(v) == v

\* a ?? null
OrNull(v) == IF IsNullish(v) THEN Null ELSE v

\* ToBoolean, the test of `||` and of `!`.
Truthy(v) ==
  CASE v.t = "boolean" -> v.b
    [] v.t = "number" -> v.n # 0
    [] v.t = "string" -> ("s" \notin DOMAIN v) \/ v.s # ""
    [] v.t = "object" -> TRUE
    [] OTHER -> FALSE

\* x || {}
OrEmptyObj(v) == IF Truthy(v) THEN v ELSE EmptyObj

\* obj.key on a non-null value: an own key of an object, undefined otherwise
\* (none of the keys the code reads is a property of a primitive's prototype).
Get(v, k) == IF v.t = "object" /\ k \in DOMAIN v.o THEN v.o[k] ELSE Undefined

\* Object.keys(obj)
Keys(v) == IF v.t = "object" THEN DOMAIN v.o ELSE {}

Digit(d) ==
  CASE d = 0 -> "0" [] d = 1 -> "1" [] d = 2 -> "2" [] d = 3 -> "3"
    [] d = 4 -> "4" [] d = 5 -> "5" [] d = 6 -> "6" [] d = 7 -> "7"
    [] d = 8 -> "8" [] d = 9 -> "9"

RECURSIVE DecimalString(_)
DecimalString(n) ==
  IF n < 10 THEN Digit(n) ELSE DecimalString(n \div 10) \o Digit(n % 10)

\* String(v), also the conversion of a property key.
JsString(v) ==
  CASE v.t = "string" -> v.s
    [] v.t = "number" -> DecimalString(v.n)
    [] v.t = "boolean" -> IF v.b THEN "true" ELSE "false"
    [] v.t = "null" -> "null"
    [] v.t = "undefined" -> "undefined"
    [] OTHER -> "[object Object]"

\* JSON.stringify(v) of a non-nullish value: the text that encodes v, a string
\* different from every plain string of the model.
JSONStringify(v) == [t |-> "string", jsonOf |-> v]

\* json(v), archive.ts line 78.
json(v) == IF ~IsNullish(v) THEN JSONStringify(v) ELSE Null

(***************************************************************************)
(* Schema registry (archive.ts lines 82-173).  A DDL fragment              *)
(* "col TYPE, col TYPE" is the sequence of its comma-separated column      *)
(* definitions, each the sequence of its whitespace-separated words.       *)
(***************************************************************************)
Col(name, type) == <<name, type>>

EVENT_SCHEMAS ==
  [PushEvent |->
     [table |-> "push_events",
      columns |-> <<Col("repository_id", "INTEGER"), Col("push_id", "INTEGER"),
                    Col("ref", "TEXT"), Col("head", "TEXT"), Col("before_sha", "TEXT")>>,
      extraIndexes |-> {}],
   PullRequestEvent |->
     [table |-> "pull_request_events",
      columns |-> <<Col("action", "TEXT"), Col("number", "INTEGER"),
                    Col("pull_request", "TEXT"), Col("label", "TEXT"),
                    Col("labels", "TEXT"), Col("assignee", "TEXT"),
                    Col("assignees", "TEXT")>>,
      extraIndexes |-> {"idx_pull_request_events_action"}],
   IssuesEvent |->
     [table |-> "issues_events",
      columns |-> <<Col("action", "TEXT"), Col("issue", "TEXT"), Col("label", "TEXT"),
                    Col("labels", "TEXT"), Col("assignee", "TEXT"),
                    Col("assignees", "TEXT")>>,
      extraIndexes |-> {"idx_issues_events_action"}],
   IssueCommentEvent |->
     [table |-> "issue_comment_events",
      columns |-> <<Col("action", "TEXT"), Col("issue", "TEXT"), Col("comment", "TEXT")>>,
      extraIndexes |-> {}],
   CreateEvent |->
     [table |-> "create_events",
      columns |-> <<Col("ref", "TEXT"), Col("ref_type", "TEXT"), Col("full_ref", "TEXT"),
                    Col("master_branch", "TEXT"), Col("description", "TEXT"),
                    Col("pusher_type", "TEXT")>>,
      extraIndexes |-> {"idx_create_events_ref_type"}],
   DeleteEvent |->
     [table |-> "delete_events",
      columns |-> <<Col("ref", "TEXT"), Col("ref_type", "TEXT"), Col("full_ref", "TEXT"),
                    Col("pusher_type", "TEXT")>>,
      extraIndexes |-> {}],
   WatchEvent |->
     [table |-> "watch_events",
      columns |-> <<Col("action", "TEXT")>>,
      extraIndexes |-> {}],
   ForkEvent |->
     [table |-> "fork_events",
      columns |-> <<Col("action", "TEXT"), Col("forkee", "TEXT")>>,
      extraIndexes |-> {}],
   ReleaseEvent |->
     [table |-> "release_events",
      columns |-> <<Col("action", "TEXT"), Col("release", "TEXT")>>,
      extraIndexes |-> {}],
   MemberEvent |->
     [table |-> "member_events",
      columns |-> <<Col("action", "TEXT"), Col("member", "TEXT")>>,
      extraIndexes |-> {}],
   CommitCommentEvent |->
     [table |-> "commit_comment_events",
      columns |-> <<Col("action", "TEXT"), Col("comment", "TEXT")>>,
      extraIndexes |-> {}],
   PublicEvent |->
     [table |-> "public_events",
      columns |-> <<>>,
      extraIndexes |-> {}],
   GollumEvent |->
     [table |-> "gollum_events",
      columns |-> <<Col("pages", "TEXT")>>,
      extraIndexes |-> {}],
   PullRequestReviewEvent |->
     [table |-> "pull_request_review_events",
      columns |-> <<Col("action", "TEXT"), Col("review", "TEXT"),
                    Col("pull_request", "TEXT")>>,
      extraIndexes |-> {}],
   PullRequestReviewCommentEvent |->
     [table |-> "pull_request_review_comment_events",
      columns |-> <<Col("action", "TEXT"), Col("comment", "TEXT"),
                    Col("pull_request", "TEXT")>>,
      extraIndexes |-> {}],
   DiscussionEvent |->
     [table |-> "discussion_events",
      columns |-> <<Col("action", "TEXT"), Col("discussion", "TEXT")>>,
      extraIndexes |-> {}]]

\* The own keys of the registry object: the registered event-type tags.
EventTypes == DOMAIN EVENT_SCHEMAS

\* schema.extract(p) of the entry registered under tag.
extract(tag, p) ==
  CASE tag = "PushEvent" ->
         <<OrNull(Get(p, "repository_id")), OrNull(Get(p, "push_id")),
           OrNull(Get(p, "ref")), OrNull(Get(p, "head")), OrNull(Get(p, "before"))>>
    [] tag = "PullRequestEvent" ->
         <<OrNull(Get(p, "action")), OrNull(Get(p, "number")),
           json(Get(p, "pull_request")), json(Get(p, "label")), json(Get(p, "labels")),
           json(Get(p, "assignee")), json(Get(p, "assignees"))>>
    [] tag = "IssuesEvent" ->
         <<OrNull(Get(p, "action")), json(Get(p, "issue")), json(Get(p, "label")),
           json(Get(p, "labels")), json(Get(p, "assignee")), json(Get(p, "assignees"))>>
    [] tag = "IssueCommentEvent" ->
         <<OrNull(Get(p, "action")), json(Get(p, "issue")), json(Get(p, "comment"))>>
    [] tag = "CreateEvent" ->
         <<OrNull(Get(p, "ref")), OrNull(Get(p, "ref_type")), OrNull(Get(p, "full_ref")),
           OrNull(Get(p, "master_branch")), OrNull(Get(p, "description")),
           OrNull(Get(p, "pusher_type"))>>
    [] tag = "DeleteEvent" ->
         <<OrNull(Get(p, "ref")), OrNull(Get(p, "ref_type")), OrNull(Get(p, "full_ref")),
           OrNull(Get(p, "pusher_type"))>>
    [] tag = "WatchEvent" -> <<OrNull(Get(p, "action"))>>
    [] tag = "ForkEvent" -> <<OrNull(Get(p, "action")), json(Get(p, "forkee"))>>
    [] tag = "ReleaseEvent" -> <<OrNull(Get(p, "action")), json(Get(p, "release"))>>
    [] tag = "MemberEvent" -> <<OrNull(Get(p, "action")), json(Get(p, "member"))>>
    [] tag = "CommitCommentEvent" -> <<OrNull(Get(p, "action")), json(Get(p, "comment"))>>
    [] tag = "PublicEvent" -> <<>>
    [] tag = "GollumEvent" -> <<json(Get(p, "pages"))>>
    [] tag = "PullRequestReviewEvent" ->
         <<OrNull(Get(p, "action")), json(Get(p, "review")), json(Get(p, "pull_request"))>>
    [] tag = "PullRequestReviewCommentEvent" ->
         <<OrNull(Get(p, "action")), json(Get(p, "comment")), json(Get(p, "pull_request"))>>
    [] tag = "DiscussionEvent" ->
         <<OrNull(Get(p, "action")), json(Get(p, "discussion"))>>

\* EVENT_SCHEMAS is an object literal, so a lookup EVENT_SCHEMAS[key] also finds
\* the properties every object inherits from Object.prototype.
ObjectPrototypeKeys ==
  {"constructor", "toString", "toLocaleString", "valueOf", "hasOwnProperty",
   "isPrototypeOf", "propertyIsEnumerable", "__proto__", "__defineGetter__",
   "__defineSetter__", "__lookupGetter__", "__lookupSetter__"}

\* EVENT_SCHEMAS[event.type], line 293: "schema" for a registered tag,
\* "inherited" for a property of Object.prototype (a truthy value that has no
\* extract), "undefined" otherwise.  The key is the tag converted to a string.
SchemaLookup(type) ==
  LET key == JsString(type) IN
  IF key \in EventTypes THEN "schema"
  ELSE IF key \in ObjectPrototypeKeys THEN "inherited"
  ELSE "undefined"

(***************************************************************************)
(* Columns shared by all tables (lines 177-228).                           *)
(***************************************************************************)
\* Faulty variant of columnNames: the second word of each definition is taken.
columnSecondWords(ddl) == [i \in 1..Len(ddl) |-> ddl[i][2]]

\* columnNames(ddl): the first word of each column definition; [] for "".
columnNames(ddl) == [i \in 1..Len(ddl) |-> ddl[i][1]]

COMMON_DDL ==
  << <<"id", "TEXT", "PRIMARY", "KEY">>,
     <<"created_at", "TEXT", "NOT", "NULL">>,
     <<"public", "INTEGER", "NOT", "NULL", "DEFAULT", "1">>,
     <<"actor_id", "INTEGER">>,
     <<"actor_login", "TEXT">>,
     <<"actor_display_login", "TEXT">>,
     <<"actor_gravatar_id", "TEXT">>,
     <<"actor_avatar_url", "TEXT">>,
     <<"actor_url", "TEXT">>,
     <<"repo_id", "INTEGER">>,
     <<"repo_name", "TEXT">>,
     <<"repo_url", "TEXT">>,
     <<"org_id", "INTEGER">>,
     <<"org_login", "TEXT">>,
     <<"org_gravatar_id", "TEXT">>,
     <<"org_avatar_url", "TEXT">>,
     <<"org_url", "TEXT">>,
     <<"other", "TEXT">> >>

COMMON_COLS == columnNames(COMMON_DDL)

KNOWN_EVENT_KEYS ==
  {"id", "type", "public", "created_at", "actor", "repo", "org", "payload"}

\* otherFields[key] = ..., line 215, for each key of keys: the keys that end up
\* as own properties of the object literal otherFields.  Assigning to
\* "__proto__" runs the setter inherited from Object.prototype and creates no
\* property.
AssignedKeys(keys) == keys \ {"__proto__"}

\* commonValues(event), lines 207-228.
commonValues(event) ==
  LET actor == OrEmptyObj(Get(event, "actor"))
      repo == OrEmptyObj(Get(event, "repo"))
      org == OrEmptyObj(Get(event, "org"))
      otherKeys == Keys(event) \ KNOWN_EVENT_KEYS
      otherFields == Obj([k \in AssignedKeys(otherKeys) |-> Get(event, k)])
  IN << Str(JsString(Get(event, "id"))),
        Get(event, "created_at"),
        IF Get(event, "public") = Bool(FALSE) THEN Num(0) ELSE Num(1),
        OrNull(Get(actor, "id")), OrNull(Get(actor, "login")),
        OrNull(Get(actor, "display_login")), OrNull(Get(actor, "gravatar_id")),
        OrNull(Get(actor, "avatar_url")), OrNull(Get(actor, "url")),
        OrNull(Get(repo, "id")), OrNull(Get(repo, "name")), OrNull(Get(repo, "url")),
        OrNull(Get(org, "id")), OrNull(Get(org, "login")),
        OrNull(Get(org, "gravatar_id")), OrNull(Get(org, "avatar_url")),
        OrNull(Get(org, "url")),
        IF Cardinality(Keys(otherFields)) > 0 THEN JSONStringify(otherFields) ELSE Null >>

(***************************************************************************)
(* The store: archive.db holds one table per registry entry, each a set of *)
(* rows; a row is the sequence of the SQL values of its columns.           *)
(***************************************************************************)
Tables == {EVENT_SCHEMAS[ty].table : ty \in EventTypes}

\* Columns of COMMON_DDL declared NOT NULL, and the PRIMARY KEY column.
HasWords(def, w1, w2) == \E i \in 1..(Len(def) - 1) : def[i] = w1 /\ def[i + 1] = w2
NotNullCols == {i \in 1..Len(COMMON_DDL) : HasWords(COMMON_DDL[i], "NOT", "NULL")}
PrimaryKeyCols == {i \in 1..Len(COMMON_DDL) : HasWords(COMMON_DDL[i], "PRIMARY", "KEY")}

\* prepareInserts(db), lines 256-267: per event type the table and the column
\* list of its INSERT OR IGNORE statement.
prepareInserts ==
  [ty \in EventTypes |->
     [table |-> EVENT_SCHEMAS[ty].table,
      columns |-> COMMON_COLS \o columnNames(EVENT_SCHEMAS[ty].columns)]]

\* What better-sqlite3 binds: numbers, strings and null (undefined binds as
\* NULL); any other value makes run() throw a TypeError.
Bindable(v) == v.t \in {"number", "string", "null", "undefined"}
ToSql(v) == IF IsNullish(v) THEN Null ELSE v

\* Faulty variant of InsertOrIgnore: the row is added whatever the table holds.
InsertPlain(rows, values) == rows \cup {[i \in 1..Len(values) |-> ToSql(values[i])]}

\* Faulty variant of InsertOrIgnore: INSERT OR REPLACE, the row takes the place
\* of the row that holds its primary key.
InsertOrReplace(rows, values) ==
  LET sqlrow == [i \in 1..Len(values) |-> ToSql(values[i])] IN
  IF \E i \in NotNullCols : sqlrow[i] = Null
  THEN rows
  ELSE {r \in rows : \E i \in PrimaryKeyCols : r[i] # sqlrow[i]} \cup {sqlrow}

\* INSERT OR IGNORE of one row into the rows of its table: a row that violates
\* NOT NULL or repeats a primary key is skipped without error.
InsertOrIgnore(rows, values) ==
  LET sqlrow == [i \in 1..Len(values) |-> ToSql(values[i])] IN
  IF \/ \E i \in NotNullCols : sqlrow[i] = Null
     \/ \E r \in rows : \A i \in PrimaryKeyCols : r[i] = sqlrow[i]
  THEN rows
  ELSE rows \cup {sqlrow}

\* stmts[row.type].run(...row.values) for each row of the batch, in order;
\* stmts maps each event type to its prepared statement.
RECURSIVE RunAll(_, _, _)
RunAll(st, stmts, rows) ==
  IF rows = <<>> THEN st
  ELSE LET row == Head(rows)
           tb == stmts[row.type].table
       IN RunAll([st EXCEPT ![tb] = InsertOrIgnore(st[tb], row.values)], stmts, Tail(rows))

\* Faulty variant of flush: no transaction, the rows run before the failing one
\* stay in the store.
RECURSIVE flushNoRollback(_, _, _)
flushNoRollback(st, stmts, rows) ==
  IF rows = <<>> THEN [ok |-> TRUE, store |-> st]
  ELSE IF \E j \in 1..Len(Head(rows).values) : ~Bindable(Head(rows).values[j])
  THEN [ok |-> FALSE, store |-> st]
  ELSE flushNoRollback(RunAll(st, stmts, <<Head(rows)>>), stmts, Tail(rows))

\* flush(rows), lines 278-282: one transaction; a throwing run() rolls the
\* whole transaction back and the error propagates.
flush(st, stmts, rows) ==
  IF \E i \in 1..Len(rows) : \E j \in 1..Len(rows[i].values) : ~Bindable(rows[i].values[j])
  THEN [ok |-> FALSE, store |-> st]
  ELSE [ok |-> TRUE, store |-> RunAll(st, stmts, rows)]

(***************************************************************************)
(* Lines of the decompressed file.  A line is blank (only white space),    *)
(* malformed (JSON.parse throws) or the JSON text of a value.              *)
(***************************************************************************)
Blank == [text |-> "blank"]
Malformed == [text |-> "malformed"]
JsonText(v) == [text |-> "json", value |-> v]

\* !line.trim()
IsBlank(line) == line.text = "blank"

\* JSON.parse(line)
JSONParse(line) ==
  IF line.text = "json" THEN [ok |-> TRUE, value |-> line.value]
  ELSE [ok |-> FALSE, value |-> Undefined]

\* The batch threshold of line 12, scaled from 10_000 so that a run of a few
\* lines reaches it; the loader only compares batch.length with it.
BATCH_SIZE == 2

\* Faulty variant of BatchFull: the flush comes one row late.
BatchOverfull(batch) == Len(batch) > BATCH_SIZE

\* batch.length >= BATCH_SIZE, line 300
BatchFull(batch) == Len(batch) >= BATCH_SIZE

\* The row pushed at line 296 for an event of a registered type:
\* { type: event.type, values: [...commonValues(event), ...schema.extract(event.payload || {})] }
BuildRow(event) ==
  LET key == JsString(Get(event, "type")) IN
  [type |-> key,
   values |-> commonValues(event) \o extract(key, OrEmptyObj(Get(event, "payload")))]

\* Faulty variant of CountUp: the count of the type is set to 1.
CountOnce(typeCounts, key) ==
  [k \in DOMAIN typeCounts \cup {key} |-> IF k = key THEN 1 ELSE typeCounts[k]]

\* typeCounts[event.type] = (typeCounts[event.type] || 0) + 1, line 297
CountUp(typeCounts, key) ==
  [k \in DOMAIN typeCounts \cup {key} |->
     IF k = key
     THEN (IF key \in DOMAIN typeCounts THEN typeCounts[key] ELSE 0) + 1
     ELSE typeCounts[k]]

\* processLine(line), lines 284-305, on the loader's locals `l`
\* (stmts, typeCounts, count, batch) and the store `st`.  tx lists the batch
\* handed to flush, if any.  The result names the way the line left
\* processLine:
\*   "blank", "unparsable", "dropped": an early return;
\*   "accepted": a row was pushed (and flushed when the batch was full);
\*   "throw": an exception left processLine (reading .type of null, calling the
\*            missing extract of an inherited property, a failed flush).
processLine(l, st, line) ==
  LET same == [l |-> l, store |-> st, tx |-> <<>>]
      parsed == JSONParse(line)
      event == parsed.value
      type == Get(event, "type")
      key == JsString(type)
  IN
  IF IsBlank(line) THEN same @@ [how |-> "blank"]
  ELSE IF ~parsed.ok THEN same @@ [how |-> "unparsable"]
  ELSE IF event.t = "null" THEN same @@ [how |-> "throw"]
  ELSE IF SchemaLookup(type) = "undefined" THEN same @@ [how |-> "dropped"]
  ELSE IF SchemaLookup(type) = "inherited" THEN same @@ [how |-> "throw"]
  ELSE
    LET row == BuildRow(event)
        pushed == Append(l.batch, row)
        counts == CountUp(l.typeCounts, key)
        l1 == [l EXCEPT !.batch = pushed, !.typeCounts = counts, !.count = l.count + 1]
    IN
    IF BatchFull(pushed)
    THEN LET res == flush(st, prepareInserts, pushed) IN
         IF res.ok
         THEN [l |-> [l1 EXCEPT !.batch = <<>>], store |-> res.store,
               tx |-> <<pushed>>, how |-> "accepted"]
         ELSE [l |-> l1, store |-> res.store, tx |-> <<pushed>>, how |-> "throw"]
    ELSE [l |-> l1, store |-> st, tx |-> <<>>, how |-> "accepted"]

(***************************************************************************)
(* Bounds of the model and the inputs drawn within them.                   *)
(***************************************************************************)
\* Longest decompressed file, in lines, that loadEvents is run on alone.
MaxLines == 3

\* Number of times the program is started one after the other.
MaxRuns == 3

ObjOf(pairs) ==
  Obj([k \in {q[1] : q \in pairs} |-> (CHOOSE q \in pairs : q[1] = k)[2]])

\* A record of the feed: id, type, created_at and payload.action, each left
\* out when given as Undefined, plus further top-level keys.
Event(id, type, created, action, more) ==
  ObjOf({q \in {<<"id", id>>, <<"type", type>>, <<"created_at", created>>,
                <<"payload", IF action = Undefined THEN Undefined
                             ELSE ObjOf({<<"action", action>>})>>} \cup more :
           q[2] # Undefined})

Watch1 == Event(Str("1"), Str("WatchEvent"), Str("t1"), Str("started"),
                {<<"actor", ObjOf({<<"id", Num(7)>>, <<"login", Str("al")>>})>>,
                 <<"repo", ObjOf({<<"id", Num(9)>>, <<"name", Str("a/b")>>})>>})
Watch1Again == Event(Str("1"), Str("WatchEvent"), Str("t2"), Str("again"), {})
Watch2 == Event(Str("2"), Str("WatchEvent"), Str("t1"), Str("started"), {})
WatchNum1 == Event(Num(1), Str("WatchEvent"), Str("t3"), Undefined, {})
Fork1 == Event(Str("1"), Str("ForkEvent"), Str("t1"), Undefined,
               {<<"public", Bool(FALSE)>>})
WatchNoDate == Event(Str("3"), Str("WatchEvent"), Undefined, Str("started"), {})
Watch1NoDate == Event(Str("1"), Str("WatchEvent"), Undefined, Str("undated"), {})
WatchExtra == Event(Str("4"), Str("WatchEvent"), Str("t1"), Str("started"),
                    {<<"foo", Str("bar")>>})
WatchBoolAction == Event(Str("5"), Str("WatchEvent"), Str("t1"), Bool(TRUE), {})
Unregistered == Event(Str("6"), Str("FooEvent"), Str("t1"), Str("started"), {})
Inherited == Event(Str("7"), Str("constructor"), Str("t1"), Undefined, {})
NoType == Event(Str("8"), Undefined, Str("t1"), Undefined, {})

\* The lines a decompressed file is made of.  The state holds a line as its
\* name here; LineText gives the line.
LineText ==
  [blank |-> Blank,
   malformed |-> Malformed,
   null |-> JsonText(Null),
   number |-> JsonText(Num(42)),
   string |-> JsonText(Str("text")),
   Watch1 |-> JsonText(Watch1),
   Watch1Again |-> JsonText(Watch1Again),
   Watch2 |-> JsonText(Watch2),
   WatchNum1 |-> JsonText(WatchNum1),
   Fork1 |-> JsonText(Fork1),
   WatchNoDate |-> JsonText(WatchNoDate),
   Watch1NoDate |-> JsonText(Watch1NoDate),
   WatchExtra |-> JsonText(WatchExtra),
   WatchBoolAction |-> JsonText(WatchBoolAction),
   Unregistered |-> JsonText(Unregistered),
   Inherited |-> JsonText(Inherited),
   NoType |-> JsonText(NoType)]

LineSet == DOMAIN LineText

\* Sequences of 1..n elements of S.
SeqsUpTo(S, n) == UNION {[1..k -> S] : k \in 1..n}

\* A file's content as data.split("\n") sees it: the lines that end in a line
\* feed, then the rest (blank when the content ends in a line feed).
Inputs == SeqsUpTo(LineSet, MaxLines)

(***************************************************************************)
(* Command line (lines 16-35).  A string is the sequence of its characters.*)
(***************************************************************************)
Digits == {"0", "1", "2", "3", "4", "5", "6", "7", "8", "9"}
DigitValue(c) == CHOOSE d \in 0..9 : Digit(d) = c

\* /^\d{4}-\d{2}-\d{2}$/.test(date)
DateFormatOk(date) ==
  /\ Len(date) = 10
  /\ \A i \in {1, 2, 3, 4, 6, 7, 9, 10} : date[i] \in Digits
  /\ date[5] = "-"
  /\ date[8] = "-"

RECURSIVE DigitsValue(_, _)
DigitsValue(str, acc) ==
  IF str = <<>> \/ Head(str) \notin Digits THEN acc
  ELSE DigitsValue(Tail(str), 10 * acc + DigitValue(Head(str)))

RECURSIVE SkipSpace(_)
SkipSpace(str) ==
  IF str # <<>> /\ Head(str) = " " THEN SkipSpace(Tail(str)) ELSE str

\* parseInt(str, 10): leading white space, an optional sign, then the longest
\* run of digits; NaN when there is none.
ParseInt(str) ==
  LET t == SkipSpace(str)
      signed == t # <<>> /\ Head(t) \in {"+", "-"}
      body == IF signed THEN Tail(t) ELSE t
  IN IF body = <<>> \/ Head(body) \notin Digits THEN [nan |-> TRUE, n |-> 0]
     ELSE [nan |-> FALSE,
           n |-> IF signed /\ Head(t) = "-" THEN 0 - DigitsValue(body, 0)
                 ELSE DigitsValue(body, 0)]

\* The UTC date of the day before the process runs (lines 19-24), here fixed.
Yesterday == <<"2", "0", "2", "4", "-", "0", "1", "-", "0", "1">>

\* parseArgs(), lines 16-35.
parseArgs(args) ==
  IF Len(args) = 0 THEN [ok |-> TRUE, date |-> Yesterday, hour |-> 0]
  ELSE IF ~DateFormatOk(args[1]) THEN [ok |-> FALSE, error |-> "Invalid date format"]
  ELSE LET parsed == IF Len(args) >= 2 THEN ParseInt(args[2]) ELSE [nan |-> FALSE, n |-> 0]
       IN IF parsed.nan \/ parsed.n < 0 \/ parsed.n > 23
          THEN [ok |-> FALSE, error |-> "Invalid hour"]
          ELSE [ok |-> TRUE, date |-> args[1], hour |-> parsed.n]

\* Command lines the program is started with.
ArgvSet ==
  {<<>>,
   <<Yesterday>>,
   <<Yesterday, <<"5">>>>,
   <<Yesterday, <<"2", "4">>>>,
   <<Yesterday, <<"x">>>>,
   <<Yesterday, <<"5", "x">>>>,
   << <<"2", "0", "2", "4", "-", "1", "-", "1">> >>}

\* `${date}-${hour}`, line 337
FileName(parsed) == [date |-> parsed.date, hour |-> parsed.hour]
FileNames == {FileName(parseArgs(a)) : a \in {b \in ArgvSet : parseArgs(b).ok}}
NoName == [date |-> <<>>, hour |-> 0]

\* `https://data.gharchive.org/${filename}.json.gz`, line 340, and the targets
\* a Location header may name.
ArchiveUrl(name) == [host |-> "data.gharchive.org", file |-> name]
Locations(name) == {[host |-> h, file |-> name] : h \in {"cdn-a", "cdn-b"}}
NoUrl == [host |-> "", file |-> NoName]

\* Status codes the server answers with.
StatusCodes == {200, 301, 302, 303, 307, 308, 404, 500}

\* What the server holds for a file name: contents as data.split("\n") sees them.
Snapshots ==
  {<<"Watch1", "Watch1Again", "Fork1", "blank">>,
   <<"Watch2", "malformed", "Unregistered">>,
   <<"Watch2", "null", "blank">>}

\* What a write cut short can leave of a content: whole lines, then nothing or
\* the beginning of the next line.
Truncations(lines) ==
  {SubSeq(lines, 1, k) \o <<rest>> :
     k \in 0..(Len(lines) - 1), rest \in {"blank", "malformed"}}

(***************************************************************************)
(* State.                                                                  *)
(***************************************************************************)
VARIABLES
  pc,         \* where main() stands; "exited" when the process has ended
  runs,       \* processes started so far
  argv,       \* process.argv.slice(2) of the running process
  filename,   \* `${date}-${hour}` of the running process
  url,        \* URL of the request in flight
  snapshot,   \* what the archive server holds for each file name
  gzFiles,    \* archive-data/<filename>.json.gz
  jsonFiles,  \* archive-data/<filename>.json
  dbFile,     \* archive.db: absent, or its tables
  sideFiles,  \* which of archive.db-wal, archive.db-shm exist
  l,          \* locals of loadEvents: stmts, typeCounts, count, batch
  unread,     \* lines of the stream not yet handed to processLine
  exitCode,   \* exit status of the last process that ended
  fatal,      \* what the last process reported as it ended
  lastStatus, \* status code of the last response received
  flushLog,   \* every batch handed to flush so far in this run, in order
  completed,  \* per file name: the runs that ended with status 0, and the
              \* row count of each table as the last of them ended
  content,    \* characters of the file the line stream is opened on
  stream,     \* characters the stream has not delivered yet
  chunks,     \* the chunks delivered so far
  remainder,  \* `remainder` of loadEvents, lines 309-317
  handed,     \* the lines handed to processLine so far, in order
  ended,      \* the for-await loop is over and the rest was handed over
  event,      \* the decoded record a row is built for on its own
  row         \* that row, once built, and what its flush left in the store

loadVars == <<l, unread, flushLog>>
fileVars == <<gzFiles, jsonFiles>>
dbVars == <<dbFile, sideFiles>>
netVars == <<url, lastStatus>>
runVars == <<runs, argv, filename, snapshot, completed>>
splitVars == <<content, stream, chunks, remainder, handed, ended>>
rowVars == <<event, row>>
vars == <<pc, runVars, netVars, fileVars, dbVars, loadVars, exitCode, fatal, splitVars,
         rowVars>>

NoFile == [exists |-> FALSE]
\* A data file: `whole` is false when the write was cut short.
DataFile(lines, whole) == [exists |-> TRUE, lines |-> lines, whole |-> whole]
NoDb == [exists |-> FALSE]
Db(tables) == [exists |-> TRUE, tables |-> tables]

NoLocals == [stmts |-> {}, typeCounts |-> [k \in {} |-> 0], count |-> 0, batch |-> <<>>]
NoError == [kind |-> "none"]

\* Faulty variant of Fatal: the error is logged and the process ends with
\* status 0.
FatalExitsZero(stage, error) ==
  /\ pc' = "exited"
  /\ exitCode' = 0
  /\ fatal' = [kind |-> error.kind, stage |-> stage] @@ error

\* process.exit(1) from main().catch, lines 377-380, after the stage threw.
Fatal(stage, error) ==
  /\ pc' = "exited"
  /\ exitCode' = 1
  /\ fatal' = [kind |-> error.kind, stage |-> stage] @@ error

(***************************************************************************)
(* loadEvents, lines 271-331.                                              *)
(***************************************************************************)
\* Lines 272-282 and 308-309: prepare the inserts, reset the locals, open the
\* stream on the decompressed file.
LoadStart ==
  /\ pc = "load"
  /\ l' = [stmts |-> DOMAIN prepareInserts, typeCounts |-> [k \in {} |-> 0],
           count |-> 0, batch |-> <<>>]
  /\ unread' = jsonFiles[filename].lines
  /\ flushLog' = <<>>
  /\ pc' = "lines"
  /\ UNCHANGED <<runVars, netVars, fileVars, dbVars, exitCode, fatal, splitVars, rowVars>>

\* Lines 311-316: processLine on the next line that ends in a line feed.
ProcessLine ==
  /\ pc = "lines"
  /\ Len(unread) > 1
  /\ LET res == processLine(l, dbFile.tables, LineText[Head(unread)]) IN
     /\ l' = res.l
     /\ dbFile' = Db(res.store)
     /\ flushLog' = flushLog \o res.tx
     /\ unread' = Tail(unread)
     /\ IF res.how = "throw"
        THEN Fatal("load", [kind |-> "TypeError"])
        ELSE UNCHANGED <<pc, exitCode, fatal>>
  /\ UNCHANGED <<runVars, netVars, fileVars, sideFiles, splitVars, rowVars>>

\* Faulty variant of FinalFlushNeeded: the last partial batch is forgotten.
FinalFlushNever(batch) == FALSE

\* batch.length > 0, line 319
FinalFlushNeeded(batch) == Len(batch) > 0

\* Lines 317-330: processLine on the rest of the content, the flush of the
\* last partial batch, the summary; loadEvents returns count.
LoadFinish ==
  /\ pc = "lines"
  /\ Len(unread) = 1
  /\ LET res == processLine(l, dbFile.tables, LineText[Head(unread)])
         last == IF res.how # "throw" /\ FinalFlushNeeded(res.l.batch)
                 THEN flush(res.store, prepareInserts, res.l.batch)
                 ELSE [ok |-> TRUE, store |-> res.store]
         tx == IF res.how # "throw" /\ FinalFlushNeeded(res.l.batch)
               THEN <<res.l.batch>> ELSE <<>>
     IN
     /\ l' = res.l
     /\ dbFile' = Db(last.store)
     /\ flushLog' = flushLog \o res.tx \o tx
     /\ unread' = <<>>
     /\ IF res.how = "throw" \/ ~last.ok
        THEN Fatal("load", [kind |-> "TypeError"])
        ELSE /\ pc' = "loaded"
             /\ UNCHANGED <<exitCode, fatal>>
  /\ UNCHANGED <<runVars, netVars, fileVars, sideFiles, splitVars, rowVars>>

(***************************************************************************)
(* main, lines 335-380, and the stages it awaits.                          *)
(***************************************************************************)
\* The program is started (again): node archive.ts [date [hour]].
StartProcess ==
  /\ pc \in {"idle", "exited"}
  /\ runs < MaxRuns
  /\ runs' = runs + 1
  /\ argv' \in ArgvSet
  /\ pc' = "main"
  /\ filename' = NoName
  /\ url' = NoUrl
  /\ lastStatus' = 0
  /\ l' = NoLocals
  /\ unread' = <<>>
  /\ flushLog' = <<>>
  /\ fatal' = NoError
  /\ UNCHANGED <<snapshot, completed, fileVars, dbVars, exitCode, splitVars, rowVars>>

\* Lines 336-348: parseArgs, mkdirSync, then the cached download or the start
\* of download(): createWriteStream(dest) creates the file, get(url) sends
\* the request.
MainStart ==
  /\ pc = "main"
  /\ LET parsed == parseArgs(argv) IN
     IF ~parsed.ok
     THEN /\ Fatal("args", [kind |-> "ArgumentError", message |-> parsed.error])
          /\ UNCHANGED <<filename, netVars, fileVars>>
     ELSE /\ filename' = FileName(parsed)
          /\ UNCHANGED <<exitCode, fatal, lastStatus, jsonFiles>>
          /\ IF gzFiles[filename'].exists
             THEN /\ pc' = "downloaded"
                  /\ UNCHANGED <<url, gzFiles>>
             ELSE /\ pc' = "request"
                  /\ url' = ArchiveUrl(filename')
                  /\ gzFiles' = [gzFiles EXCEPT ![filename'] = DataFile(<<"blank">>, FALSE)]
  /\ UNCHANGED <<runs, argv, snapshot, completed, dbVars, loadVars, splitVars, rowVars>>

\* response.statusCode === 301 || response.statusCode === 302, line 43
IsRedirect(status) == status = 301 \/ status = 302

\* Lines 42-55: the response callback of get().
Response ==
  /\ pc = "request"
  /\ \E status \in StatusCodes, location \in Locations(filename) :
       /\ lastStatus' = status
       /\ IF IsRedirect(status)
          THEN \* file.close(); unlinkSync(dest); download(location, dest) creates
               \* the file again and sends the next request.
               /\ url' = location
               /\ gzFiles' = [gzFiles EXCEPT ![filename] = DataFile(<<"blank">>, FALSE)]
               /\ UNCHANGED <<pc, exitCode, fatal>>
          ELSE IF status # 200
          THEN \* file.close(); unlinkSync(dest); reject(new Error(`HTTP ...`))
               /\ gzFiles' = [gzFiles EXCEPT ![filename] = NoFile]
               /\ Fatal("download", [kind |-> "HTTPError", status |-> status, url |-> url])
               /\ UNCHANGED url
          ELSE \* response.pipe(file)
               /\ pc' = "body"
               /\ UNCHANGED <<url, gzFiles, exitCode, fatal>>
  /\ UNCHANGED <<runVars, jsonFiles, dbVars, loadVars, splitVars, rowVars>>

\* Lines 57-61: the request fails before any response; the "error" handler of
\* the request closes and removes the file and rejects.
RequestError ==
  /\ pc = "request"
  /\ gzFiles' = [gzFiles EXCEPT ![filename] = NoFile]
  /\ Fatal("download", [kind |-> "NetworkError"])
  /\ UNCHANGED <<runVars, netVars, jsonFiles, dbVars, loadVars, splitVars, rowVars>>

\* Line 56 and lines 349-350: the body is written out, "finish" resolves the
\* promise and main goes on.
BodyFinish ==
  /\ pc = "body"
  /\ gzFiles' = [gzFiles EXCEPT ![filename] = DataFile(snapshot[filename], TRUE)]
  /\ pc' = "downloaded"
  /\ UNCHANGED <<runVars, netVars, jsonFiles, dbVars, loadVars, exitCode, fatal, splitVars, rowVars>>

\* The connection is lost while the body is piped into the file.  The error
\* is emitted on the response, on which the code registers no handler (the
\* process ends on the uncaught "error" event and the part written stays), or
\* on the request, whose handler (lines 57-61) removes the file.
BodyAbort ==
  /\ pc = "body"
  /\ \E onRequest \in BOOLEAN, part \in Truncations(snapshot[filename]) :
       IF onRequest
       THEN /\ gzFiles' = [gzFiles EXCEPT ![filename] = NoFile]
            /\ Fatal("download", [kind |-> "NetworkError"])
       ELSE /\ gzFiles' = [gzFiles EXCEPT ![filename] = DataFile(part, FALSE)]
            /\ Fatal("download", [kind |-> "UncaughtError"])
  /\ UNCHANGED <<runVars, netVars, jsonFiles, dbVars, loadVars, splitVars, rowVars>>

\* Lines 353-357: the cached decompressed file, or the start of decompress():
\* createWriteStream(outPath) creates the file.
CheckJson ==
  /\ pc = "downloaded"
  /\ IF jsonFiles[filename].exists
     THEN /\ pc' = "createdb"
          /\ UNCHANGED jsonFiles
     ELSE /\ pc' = "gunzip"
          /\ jsonFiles' = [jsonFiles EXCEPT ![filename] = DataFile(<<"blank">>, FALSE)]
  /\ UNCHANGED <<runVars, netVars, gzFiles, dbVars, loadVars, exitCode, fatal, splitVars, rowVars>>

\* decompress(), lines 67-73: the pipeline ends, or fails on a compressed file
\* that was cut short and leaves what it has written.
Decompress ==
  /\ pc = "gunzip"
  /\ IF gzFiles[filename].whole
     THEN /\ jsonFiles' = [jsonFiles EXCEPT ![filename] = DataFile(gzFiles[filename].lines, TRUE)]
          /\ pc' = "createdb"
          /\ UNCHANGED <<exitCode, fatal>>
     ELSE /\ jsonFiles' = [jsonFiles EXCEPT ![filename] = DataFile(gzFiles[filename].lines, FALSE)]
          /\ Fatal("decompress", [kind |-> "DecompressionError"])
  /\ UNCHANGED <<runVars, netVars, gzFiles, dbVars, loadVars, splitVars, rowVars>>

\* Faulty variant of UnlinkStoreFiles: the earlier store is left in place.
UnlinkNothing(db) == db

\* Lines 233-235: unlinkSync of archive.db, archive.db-wal, archive.db-shm.
UnlinkStoreFiles(db) == NoDb

\* The columns of the table that line 243 creates for a schema,
\* CREATE TABLE t (${COMMON_DDL}${extraCols}): SQLite names a column by the
\* first word of its definition.
tableColumns(schema) ==
  LET defs == COMMON_DDL \o schema.columns IN
  [i \in 1..Len(defs) |-> Head(defs[i])]

\* Faulty variant of createArchiveDatabase: no table is created.
createArchiveDatabaseNoTables(found) == [ok |-> TRUE, db |-> Db([tb \in {} |-> {}])]

\* createArchiveDatabase(), lines 232-252, on the store file found: CREATE
\* TABLE throws when new Database() opened a file that holds the table.
createArchiveDatabase(found) ==
  LET opened == UnlinkStoreFiles(found)
      held == IF opened.exists THEN opened.tables ELSE [tb \in {} |-> {}]
  IN IF \E ty \in EventTypes : EVENT_SCHEMAS[ty].table \in DOMAIN held
     THEN [ok |-> FALSE, db |-> Db(held)]
     ELSE [ok |-> TRUE, db |-> Db([tb \in Tables |-> {}])]

\* Lines 362-365.
CreateArchiveDatabase ==
  /\ pc = "createdb"
  /\ LET res == createArchiveDatabase(dbFile) IN
     /\ dbFile' = res.db
     /\ sideFiles' = {"wal", "shm"}
     /\ IF res.ok
        THEN /\ pc' = "load"
             /\ UNCHANGED <<exitCode, fatal>>
        ELSE Fatal("store", [kind |-> "SqliteError"])
  /\ UNCHANGED <<runVars, netVars, fileVars, loadVars, splitVars, rowVars>>

\* Number of rows of each table.
RowCounts(db) == [tb \in DOMAIN db.tables |-> Cardinality(db.tables[tb])]

\* Lines 368-374: the totals, db.close() (which folds the write-ahead log into
\* archive.db and removes the side files), and the process ends with status 0.
MainDone ==
  /\ pc = "loaded"
  /\ pc' = "exited"
  /\ exitCode' = 0
  /\ sideFiles' = {}
  /\ completed' = [completed EXCEPT ![filename] =
                     [n |-> completed[filename].n + 1, counts |-> RowCounts(dbFile)]]
  /\ UNCHANGED <<runs, argv, filename, snapshot, netVars, fileVars, dbFile, loadVars, fatal,
                 splitVars, rowVars>>

NeverCompleted == [n |-> 0, counts |-> [tb \in Tables |-> 0]]

\* No row is built on its own.
NoRow == [built |-> FALSE]
NoRowBuilt ==
  /\ event = Undefined
  /\ row = NoRow

\* No character-level stream is open.
NoStream ==
  /\ content = <<>>
  /\ stream = <<>>
  /\ chunks = <<>>
  /\ remainder = <<>>
  /\ handed = <<>>
  /\ ended = FALSE

Init ==
  /\ pc = "idle"
  /\ runs = 0
  /\ argv = <<>>
  /\ filename = NoName
  /\ url = NoUrl
  /\ snapshot \in [FileNames -> Snapshots]
  /\ gzFiles = [f \in FileNames |-> NoFile]
  /\ jsonFiles = [f \in FileNames |-> NoFile]
  /\ dbFile = NoDb
  /\ sideFiles = {}
  /\ l = NoLocals
  /\ unread = <<>>
  /\ exitCode = 0
  /\ fatal = NoError
  /\ lastStatus = 0
  /\ flushLog = <<>>
  /\ completed = [f \in FileNames |-> NeverCompleted]
  /\ NoStream
  /\ NoRowBuilt

Next ==
  \/ StartProcess
  \/ MainStart
  \/ Response
  \/ RequestError
  \/ BodyFinish
  \/ BodyAbort
  \/ CheckJson
  \/ Decompress
  \/ CreateArchiveDatabase
  \/ LoadStart
  \/ ProcessLine
  \/ LoadFinish
  \/ MainDone

Spec == Init /\ [][Next]_vars

\* The server answers every request and the event loop runs every callback
\* that is due.
FairSpec == Spec /\ WF_vars(Next)

(***************************************************************************)
(* loadEvents alone, on every content of MaxLines lines at most: the state *)
(* main is in when it calls loadEvents on a cached file and a new store.   *)
(***************************************************************************)
LoadFile == FileName(parseArgs(<<>>))

InitLoad ==
  /\ pc = "load"
  /\ runs = 1
  /\ argv = <<>>
  /\ filename = LoadFile
  /\ url = NoUrl
  /\ snapshot \in [FileNames -> {<<"blank">>}]
  /\ \E lines \in Inputs :
       /\ gzFiles = [f \in FileNames |-> IF f = LoadFile THEN DataFile(lines, TRUE) ELSE NoFile]
       /\ jsonFiles = [f \in FileNames |-> IF f = LoadFile THEN DataFile(lines, TRUE) ELSE NoFile]
  /\ dbFile = Db([tb \in Tables |-> {}])
  /\ sideFiles = {"wal", "shm"}
  /\ l = NoLocals
  /\ unread = <<>>
  /\ exitCode = 0
  /\ fatal = NoError
  /\ lastStatus = 0
  /\ flushLog = <<>>
  /\ completed = [f \in FileNames |-> NeverCompleted]
  /\ NoStream
  /\ NoRowBuilt

NextLoad ==
  \/ LoadStart
  \/ ProcessLine
  \/ LoadFinish

SpecLoad == InitLoad /\ [][NextLoad]_vars

(***************************************************************************)
(* Properties of loadEvents, checked under SpecLoad.                       *)
(***************************************************************************)
\* The content loadEvents reads.
Input == jsonFiles[filename].lines

\* The line decodes to a record of a registered type: the loader accepts it.
IsAccepted(line) ==
  /\ line.text = "json"
  /\ line.value.t = "object"
  /\ JsString(Get(line.value, "type")) \in EventTypes

\* The line decodes to a record whose type tag is no entry of the registry
\* (any other string, or no tag at all).
HasUnregisteredTag(line) ==
  /\ line.text = "json"
  /\ line.value.t = "object"
  /\ Get(line.value, "type").t \in {"string", "undefined"}
  /\ JsString(Get(line.value, "type")) \notin EventTypes

\* The line is not blank and does not decode to a record: it is no JSON text,
\* or the JSON text of null, a number or a string.
NotARecord(line) ==
  \/ line.text = "malformed"
  \/ line.text = "json" /\ line.value.t # "object"

RECURSIVE AcceptedRows(_)
AcceptedRows(lines) ==
  IF lines = <<>> THEN <<>>
  ELSE (IF IsAccepted(LineText[Head(lines)])
        THEN <<BuildRow(LineText[Head(lines)].value)>> ELSE <<>>)
       \o AcceptedRows(Tail(lines))

RECURSIVE Concat(_)
Concat(seqs) == IF seqs = <<>> THEN <<>> ELSE Head(seqs) \o Concat(Tail(seqs))

\* All rows are of one type, with pairwise different identifiers as the rows
\* hold them (String(event.id)).
OneTypeDistinctIds(rows) ==
  /\ \A i, j \in 1..Len(rows) : rows[i].type = rows[j].type
  /\ \A i, j \in 1..Len(rows) : i # j => rows[i].values[1] # rows[j].values[1]

\* Every row carries a creation timestamp.
AllDated(rows) == \A i \in 1..Len(rows) : ~IsNullish(rows[i].values[2])

TableOf(rows) == EVENT_SCHEMAS[rows[1].type].table

\* C2 as stated: when loadEvents returns, the batches handed to flush hold
\* every accepted row exactly once, in input order, and N accepted rows of one
\* type with N distinct identifiers leave exactly N rows in the table.
C2_EveryRowFlushedOnce_AsStated ==
  pc = "loaded" =>
    LET rows == AcceptedRows(Input) IN
    /\ Concat(flushLog) = rows
    /\ (rows # <<>> /\ OneTypeDistinctIds(rows)) =>
         Cardinality(dbFile.tables[TableOf(rows)]) = Len(rows)

\* C2 as amended: when loadEvents returns, the batches handed to flush hold
\* every accepted row exactly once, in input order (none left buffered, none
\* flushed twice), and N accepted rows of one type with N distinct identifiers
\* that all carry a creation timestamp leave exactly N rows in the table.
C2_EveryRowFlushedOnce ==
  pc = "loaded" =>
    LET rows == AcceptedRows(Input) IN
    /\ Concat(flushLog) = rows
    /\ (rows # <<>> /\ OneTypeDistinctIds(rows) /\ AllDated(rows)) =>
         Cardinality(dbFile.tables[TableOf(rows)]) = Len(rows)

\* Three rows of one type, above the threshold: one flush at the threshold
\* and the flush of the last partial batch leave three rows.
C2_Witness ==
  /\ pc = "loaded"
  /\ Len(AcceptedRows(Input)) > BATCH_SIZE
  /\ OneTypeDistinctIds(AcceptedRows(Input))
  /\ AllDated(AcceptedRows(Input))
  /\ Len(flushLog) = 2
  /\ Cardinality(dbFile.tables["watch_events"]) = Len(AcceptedRows(Input))

C5_UnregisteredTagDropped ==
  [][(pc = "lines" /\ Len(unread) > 1 /\ HasUnregisteredTag(LineText[Head(unread)]))
       => (pc' = "lines" /\ l' = l /\ dbFile' = dbFile /\ unread' = Tail(unread))]_vars

\* C6: processing a line that does not decode as a record is not fatal and
\* leaves the batch, the counts and the store as they were; the loader goes on
\* with the next line.
C6_UndecodableLineSkipped ==
  [][(pc = "lines" /\ Len(unread) > 1 /\ NotARecord(LineText[Head(unread)]))
       => (pc' = "lines" /\ l' = l /\ dbFile' = dbFile /\ unread' = Tail(unread))]_vars

\* C7: processing a line that fails to decode, or a record dropped for its
\* unregistered type, increases a counter the loader keeps: the locals of
\* loadEvents do not stay as they were.
C7_SkippedLinesCounted ==
  [][(/\ pc = "lines" /\ Len(unread) > 1
      /\ \/ LineText[Head(unread)].text = "malformed"
         \/ HasUnregisteredTag(LineText[Head(unread)])
      /\ pc' = "lines")
       => l' # l]_vars

(***************************************************************************)
(* The line stream of loadEvents, lines 307-317, character by character:   *)
(* the stream delivers the content in chunks of any size; each chunk is    *)
(* appended to the remainder, split, and all lines but the last are handed *)
(* to processLine.                                                         *)
(***************************************************************************)
LF == "\n"
CR == "\r"

\* Characters of a content: line feed, carriage return, any other character.
Chars == {LF, CR, "a"}

\* Longest content, in characters.
MaxChars == 4

\* data.split("\n"): the pieces between line feeds, at least one.
RECURSIVE split(_)
split(data) ==
  IF data = <<>> THEN << <<>> >>
  ELSE LET rest == split(Tail(data)) IN
       IF Head(data) = LF THEN << <<>> >> \o rest
       ELSE << <<Head(data)>> \o Head(rest) >> \o Tail(rest)

\* Faulty variant of Carry: the remainder of the previous chunk is forgotten.
CarryNothing(rem, chunk) == chunk

\* remainder + chunk, line 312
Carry(rem, chunk) == rem \o chunk

\* Lines 311-316: one turn of the for-await loop on the next chunk.
ReadChunk ==
  /\ ~ended
  /\ stream # <<>>
  /\ \E n \in 1..Len(stream) :
       LET chunk == SubSeq(stream, 1, n)
           lines == split(Carry(remainder, chunk))
       IN /\ stream' = SubSeq(stream, n + 1, Len(stream))
          /\ chunks' = Append(chunks, chunk)
          /\ remainder' = lines[Len(lines)]
          /\ handed' = handed \o SubSeq(lines, 1, Len(lines) - 1)
  /\ UNCHANGED <<content, ended>>
  /\ UNCHANGED <<pc, runVars, netVars, fileVars, dbVars, loadVars, exitCode, fatal, rowVars>>

\* Line 317: the stream has ended; processLine(remainder).
EndOfStream ==
  /\ ~ended
  /\ stream = <<>>
  /\ handed' = Append(handed, remainder)
  /\ ended' = TRUE
  /\ UNCHANGED <<content, stream, chunks, remainder>>
  /\ UNCHANGED <<pc, runVars, netVars, fileVars, dbVars, loadVars, exitCode, fatal, rowVars>>

InitSplit ==
  /\ pc = "lines"
  /\ runs = 1
  /\ argv = <<>>
  /\ filename = LoadFile
  /\ url = NoUrl
  /\ snapshot \in [FileNames -> {<<"blank">>}]
  /\ gzFiles = [f \in FileNames |-> NoFile]
  /\ jsonFiles = [f \in FileNames |-> NoFile]
  /\ dbFile = Db([tb \in Tables |-> {}])
  /\ sideFiles = {"wal", "shm"}
  /\ l = NoLocals
  /\ unread = <<>>
  /\ exitCode = 0
  /\ fatal = NoError
  /\ lastStatus = 0
  /\ flushLog = <<>>
  /\ completed = [f \in FileNames |-> NeverCompleted]
  /\ content \in UNION {[1..n -> Chars] : n \in 0..MaxChars}
  /\ stream = content
  /\ chunks = <<>>
  /\ remainder = <<>>
  /\ handed = <<>>
  /\ ended = FALSE
  /\ NoRowBuilt

NextSplit ==
  \/ ReadChunk
  \/ EndOfStream

SpecSplit == InitSplit /\ [][NextSplit]_vars

\* The lines of a content: the characters between one line feed (or the
\* start) and the next line feed (or the end).
Breaks(text) == {0} \cup {i \in 1..Len(text) : text[i] = LF} \cup {Len(text) + 1}
LinesOf(text) ==
  LET starts == Breaks(text) \ {Len(text) + 1}
      NextBreak(i) == CHOOSE j \in Breaks(text) :
                        j > i /\ \A k \in Breaks(text) : k > i => j <= k
      Ordered == CHOOSE f \in [1..Cardinality(starts) -> starts] :
                   \A a, b \in 1..Cardinality(starts) : a < b => f[a] < f[b]
  IN [n \in 1..Cardinality(starts) |->
        SubSeq(text, Ordered[n] + 1, NextBreak(Ordered[n]) - 1)]

\* C1: however the content is cut into chunks, the lines handed to
\* processLine so far are the first lines of the content split once on line
\* feeds only, and once the stream has ended they are all of them.
C1_LinesAreLineFeedSplit ==
  /\ Len(handed) <= Len(LinesOf(content))
  /\ handed = SubSeq(LinesOf(content), 1, Len(handed))
  /\ ended => handed = LinesOf(content)

\* A content cut between a carriage return and a line feed, whose last
\* record has no line feed after it, was handed over whole.
C1_Witness ==
  /\ ended
  /\ \E i \in 1..(Len(chunks) - 1) :
       chunks[i][Len(chunks[i])] = CR /\ chunks[i + 1][1] = LF
  /\ handed[Len(handed)] # <<>>
  /\ \E i \in 1..Len(handed) : \E j \in 1..Len(handed[i]) : handed[i][j] = CR

(***************************************************************************)
(* Properties of the pipeline, checked under Spec and FairSpec.            *)
(***************************************************************************)
\* The identifiers, as rows hold them, of the records a content lets in.
AcceptedIds(lines) ==
  {AcceptedRows(lines)[i].values[1] : i \in 1..Len(AcceptedRows(lines))}

\* C4: a process that ends on a file name an earlier process completed on
\* completes too, with the same row count in every table; and the store of a
\* completed run holds no row but those of the records of its own input.
C4_RerunRebuildsStore ==
  [][(pc # "exited" /\ pc' = "exited" /\ filename' \in FileNames) =>
       /\ completed[filename'].n > 0 =>
            (exitCode' = 0 /\ RowCounts(dbFile') = completed[filename'].counts)
       /\ exitCode' = 0 =>
            \A tb \in DOMAIN dbFile'.tables : \A r \in dbFile'.tables[tb] :
              r[1] \in AcceptedIds(jsonFiles'[filename'].lines)]_vars

\* The program completed twice on the same file name and the store holds rows.
C4_Witness ==
  /\ pc = "exited"
  /\ exitCode = 0
  /\ filename \in FileNames
  /\ completed[filename].n = 2
  /\ \E tb \in DOMAIN dbFile.tables : dbFile.tables[tb] # {}

\* C8: every fetch terminates: a request in flight is followed by a state in
\* which download has resolved or failed.
C8_FetchTerminates == [](pc = "request" => <>(pc \notin {"request", "body"}))

\* Status codes by which a server redirects to the Location it names.
RedirectStatusCodes == {301, 302, 303, 307, 308}

\* C9: when a fetch has failed, the destination file does not exist, and the
\* error for a non-success status carries the status the server sent.
C9_FailedFetchLeavesNoFile ==
  (pc = "exited" /\ fatal.kind # "none" /\ fatal.stage = "download") =>
    /\ ~gzFiles[filename].exists
    /\ fatal.kind = "HTTPError" => fatal.status = lastStatus

\* C10: a redirect response is never reported as an HTTP error.
C10_RedirectsFollowed ==
  fatal.kind = "HTTPError" => fatal.status \notin RedirectStatusCodes

\* C11: no run loads a decompressed file that a failed decompression left
\* behind: the file loadEvents is called on is the whole output of a
\* decompression that completed.
C11_PartialOutputNeverLoaded ==
  pc = "load" => jsonFiles[filename].whole

\* The stages of main in the order of lines 336-373.
StageRank(p) ==
  CASE p = "main" -> 1
    [] p = "request" -> 2
    [] p = "body" -> 3
    [] p = "downloaded" -> 4
    [] p = "gunzip" -> 5
    [] p = "createdb" -> 6
    [] p = "load" -> 7
    [] p = "lines" -> 8
    [] p = "loaded" -> 9
    [] OTHER -> 0

\* C12: the stages run in order and each starts only after the one before
\* has completed: main moves on from the fetch only with the body written out
\* or the file cached, decompress starts only on a file that exists, the
\* store is created only with a decompressed file in place (the whole output
\* when decompress ran in this run), the first line is consumed only with
\* every table and every prepared insert in place, and a stage that fails
\* ends the process: no later stage runs.
C12_StagesInOrder ==
  [][/\ (pc' # pc /\ pc' \notin {"exited", "main"}) =>
          (fatal.kind = "none" /\ fatal'.kind = "none" /\ StageRank(pc') > StageRank(pc))
     /\ (pc' # pc /\ pc' = "downloaded") =>
          \/ pc = "body" /\ gzFiles'[filename'] = DataFile(snapshot[filename'], TRUE)
          \/ pc = "main" /\ gzFiles[filename'].exists
     /\ (pc' # pc /\ pc' = "gunzip") => (pc = "downloaded" /\ gzFiles[filename].exists)
     /\ (pc' # pc /\ pc' = "createdb") =>
          \/ pc = "gunzip" /\ jsonFiles'[filename].whole
          \/ pc = "downloaded" /\ jsonFiles[filename].exists
     /\ (pc' # pc /\ pc' = "load") =>
          (pc = "createdb" /\ dbFile'.exists /\ DOMAIN dbFile'.tables = Tables)
     /\ (pc' # pc /\ pc' = "lines") =>
          (pc = "load" /\ l'.stmts = EventTypes /\ DOMAIN dbFile.tables = Tables
             /\ unread' = jsonFiles[filename].lines)
     /\ fatal'.kind # "none" => pc' = "exited"
     /\ pc = "exited" => pc' \in {"exited", "main"}]_vars

\* A run that fetched, decompressed and created the store is about to consume
\* its first line.
C12_Witness ==
  /\ pc = "lines"
  /\ lastStatus = 200
  /\ unread = jsonFiles[filename].lines
  /\ gzFiles[filename].whole
  /\ jsonFiles[filename].whole
  /\ \A tb \in Tables : dbFile.tables[tb] = {}

\* An hour argument is numeric and in range: decimal digits only, of a value
\* from 0 to 23.
HourOk(str) ==
  /\ str # <<>>
  /\ \A i \in 1..Len(str) : str[i] \in Digits
  /\ DigitsValue(str, 0) \in 0..23

\* The command line names a date of another format than YYYY-MM-DD, or an
\* hour that is not numeric or not in 0..23.
BadArgs(args) ==
  /\ Len(args) >= 1
  /\ \/ ~DateFormatOk(args[1])
     \/ Len(args) >= 2 /\ ~HourOk(args[2])

\* C13: a run started with a bad date or hour ends in an error at once, with
\* no request sent, no file written (mkdirSync, line 342, comes after
\* parseArgs in the same step) and the store left as it was; a run
\* started with no argument or a date alone works on hour 0.
C13_BadArgumentsFailFirst ==
  [][/\ (pc = "main" /\ BadArgs(argv)) =>
          /\ pc' = "exited"
          /\ exitCode' = 1
          /\ fatal'.kind = "ArgumentError"
          /\ UNCHANGED <<url, lastStatus, gzFiles, jsonFiles, dbFile, sideFiles>>
     /\ (pc = "main" /\ ~BadArgs(argv) /\ Len(argv) <= 1) =>
          (pc' # "exited" /\ filename'.hour = 0)]_vars

(***************************************************************************)
(* Row construction alone: processLine (lines 284-305) on one decoded      *)
(* record of a registered type, then the flush of lines 319-321, on a new  *)
(* store.  The records are drawn from every registered type with payloads, *)
(* sub-objects and further keys present, absent or incomplete.             *)
(***************************************************************************)
\* The payload fields the extract functions of lines 89-173 read.
PayloadFields ==
  {"repository_id", "push_id", "ref", "head", "before", "action", "number",
   "pull_request", "label", "labels", "assignee", "assignees", "issue",
   "comment", "ref_type", "full_ref", "master_branch", "description",
   "pusher_type", "forkee", "release", "member", "pages", "review", "discussion"}

\* The fields commonValues reads of event.actor, event.repo and event.org.
SubFields ==
  [actor |-> {"id", "login", "display_login", "gravatar_id", "avatar_url", "url"},
   repo |-> {"id", "name", "url"},
   org |-> {"id", "login", "gravatar_id", "avatar_url", "url"}]

\* An object holding the given fields, each with a value that tells the object
\* and the field.
Filled(owner, fields) == Obj([f \in fields |-> Str(owner \o "." \o f)])

\* Payloads: none, null, a string, an empty object, every field, and every
\* field but one.
Payloads ==
  {Undefined, Null, Str("text"), EmptyObj, Filled("payload", PayloadFields)}
    \cup {Filled("payload", PayloadFields \ {f}) : f \in PayloadFields}

\* event.actor, event.repo, event.org: absent, empty, no objects, complete,
\* and complete but for one field of one of them.
SubObjects ==
  {[actor |-> Undefined, repo |-> Undefined, org |-> Undefined],
   [actor |-> EmptyObj, repo |-> EmptyObj, org |-> EmptyObj],
   [actor |-> Null, repo |-> Str("text"), org |-> Num(0)],
   [o \in DOMAIN SubFields |-> Filled(o, SubFields[o])]}
    \cup {[o \in DOMAIN SubFields |->
             Filled(o, IF o = gone[1] THEN SubFields[o] \ {gone[2]} ELSE SubFields[o])] :
            gone \in {g \in (DOMAIN SubFields) \X (UNION {SubFields[o] : o \in DOMAIN SubFields}) :
                        g[2] \in SubFields[g[1]]}}

\* Further top-level keys of a record.
ExtraKeys == {{}, {"foo"}, {"__proto__"}, {"foo", "__proto__"}}

\* A record of the feed, with or without public: false.
Record(type, payload, subs, extras, private) ==
  ObjOf({q \in {<<"id", Str("1")>>, <<"type", Str(type)>>, <<"created_at", Str("t1")>>,
                <<"public", IF private THEN Bool(FALSE) ELSE Undefined>>,
                <<"payload", payload>>, <<"actor", subs.actor>>,
                <<"repo", subs.repo>>, <<"org", subs.org>>}
               \cup {<<k, Str("extra." \o k)>> : k \in extras} :
           q[2] # Undefined})

CompleteSubObjects == [o \in DOMAIN SubFields |-> Filled(o, SubFields[o])]

Records ==
  {Record(ty, p, CompleteSubObjects, {}, FALSE) : ty \in EventTypes, p \in Payloads}
    \cup {Record(ty, Filled("payload", PayloadFields), s, x, b) :
            ty \in EventTypes, s \in SubObjects, x \in ExtraKeys, b \in BOOLEAN}

\* processLine on the record, then lines 319-321.
BuildRowAlone ==
  /\ pc = "row"
  /\ LET res == processLine(l, dbFile.tables, JsonText(event))
         last == IF res.how # "throw" /\ FinalFlushNeeded(res.l.batch)
                 THEN flush(res.store, prepareInserts, res.l.batch)
                 ELSE [ok |-> TRUE, store |-> res.store]
     IN /\ l' = res.l
        /\ row' = [built |-> TRUE, how |-> res.how, ok |-> last.ok,
                   rows |-> IF res.tx # <<>> THEN res.tx[1] ELSE res.l.batch]
        /\ dbFile' = Db(last.store)
        /\ pc' = IF res.how = "throw" \/ ~last.ok THEN "exited" ELSE "loaded"
  /\ UNCHANGED <<runVars, netVars, fileVars, sideFiles, unread, flushLog, exitCode, fatal,
                 splitVars, event>>

InitRow ==
  /\ pc = "row"
  /\ runs = 1
  /\ argv = <<>>
  /\ filename = LoadFile
  /\ url = NoUrl
  /\ snapshot \in [FileNames -> {<<"blank">>}]
  /\ gzFiles = [f \in FileNames |-> NoFile]
  /\ jsonFiles = [f \in FileNames |-> NoFile]
  /\ dbFile = Db([tb \in Tables |-> {}])
  /\ sideFiles = {"wal", "shm"}
  /\ l = [stmts |-> DOMAIN prepareInserts, typeCounts |-> [k \in {} |-> 0],
          count |-> 0, batch |-> <<>>]
  /\ unread = <<>>
  /\ exitCode = 0
  /\ fatal = NoError
  /\ lastStatus = 0
  /\ flushLog = <<>>
  /\ completed = [f \in FileNames |-> NeverCompleted]
  /\ NoStream
  /\ event \in Records
  /\ row = NoRow

NextRow == BuildRowAlone

SpecRow == InitRow /\ [][NextRow]_vars

(***************************************************************************)
(* Properties of row construction, checked under SpecRow.                  *)
(***************************************************************************)
\* No element occurs twice in the sequence.
NoRepeat(seq) == \A i, j \in 1..Len(seq) : i # j => seq[i] # seq[j]

\* The row built for the record.
Built == row.rows[1]

\* C14: for every registry entry the columns of the created table and the
\* columns of the prepared insert are the same list, the 18 envelope columns
\* followed by the entry's declared columns, with no name twice; and a row
\* built for the entry has one value per column, the last of them as many as
\* the entry declares columns.
C14_ColumnsAgree ==
  /\ \A ty \in EventTypes :
       LET schema == EVENT_SCHEMAS[ty]
           created == tableColumns(schema)
           inserted == prepareInserts[ty].columns
       IN /\ created = inserted
          /\ Len(inserted) = 18 + Len(schema.columns)
          /\ SubSeq(inserted, 1, 18) = COMMON_COLS
          /\ \A i \in 1..Len(schema.columns) : inserted[18 + i] = schema.columns[i][1]
          /\ NoRepeat(inserted)
  /\ (row.built /\ row.how = "accepted") =>
       /\ Len(Built.values) = Len(prepareInserts[Built.type].columns)
       /\ Len(Built.values) = Len(tableColumns(EVENT_SCHEMAS[Built.type]))
       /\ Len(extract(Built.type, OrEmptyObj(Get(event, "payload"))))
            = Len(EVENT_SCHEMAS[Built.type].columns)

\* A row was built for the entry with the most columns, and one for the entry
\* with none.
C14_Witness ==
  /\ row.built
  /\ row.how = "accepted"
  /\ Built.type \in {"PullRequestEvent", "PublicEvent"}
  /\ Len(Built.values) \in {18, 25}

\* The top-level keys of the record outside the known set.
UnknownKeys ==
  Keys(event) \ {"id", "type", "public", "created_at", "actor", "repo", "org", "payload"}

\* C15: the "other" column of the row built for a record holds the text of
\* exactly the record's top-level keys outside the known set, with their
\* values, and is null when there is none; no other column holds such a value.
C15_OtherHoldsUnknownKeys ==
  (row.built /\ row.how = "accepted") =>
    /\ Built.values[18] =
         IF UnknownKeys = {} THEN Null
         ELSE JSONStringify(Obj([k \in UnknownKeys |-> event.o[k]]))
    /\ \A i \in 1..Len(Built.values) : \A k \in UnknownKeys :
         i # 18 => Built.values[i] \notin {event.o[k], JSONStringify(event.o[k])}

\* The payload field a declared column is filled from.
SourceField(col) == IF col = "before_sha" THEN "before" ELSE col

\* The payload as the extract functions see it.
PayloadOf(ev) == Get(ev, "payload")

\* C16: whichever of the payload, its fields, the actor, repo and org
\* sub-objects and their fields a record of a registered type lacks, the row
\* is built and stored without an error, has one value for every column, none
\* of them undefined, and holds null in each column whose source field is
\* absent (and the field's value, as it is or as JSON text, where present).
C16_MissingDataGivesNull ==
  row.built =>
    /\ row.how = "accepted"
    /\ row.ok
    /\ Len(Built.values) = Len(prepareInserts[Built.type].columns)
    /\ \A i \in 1..Len(Built.values) : Built.values[i] # Undefined
    /\ \A i \in 4..17 : \A o \in DOMAIN SubFields : \A f \in SubFields[o] :
         COMMON_COLS[i] = o \o "_" \o f =>
           Built.values[i] = IF Get(Get(event, o), f) = Undefined THEN Null
                             ELSE Get(Get(event, o), f)
    /\ \A i \in 1..Len(EVENT_SCHEMAS[Built.type].columns) :
         LET f == SourceField(EVENT_SCHEMAS[Built.type].columns[i][1])
             v == Get(PayloadOf(event), f)
         IN Built.values[18 + i] \in
              (IF v = Undefined THEN {Null} ELSE {v, JSONStringify(v)})
    /\ Cardinality(dbFile.tables[EVENT_SCHEMAS[Built.type].table]) = 1

\* A row was built for a record without payload, and one for a record whose
\* actor, repo and org are absent.
C16_Witness ==
  /\ row.built
  /\ row.how = "accepted"
  /\ \/ PayloadOf(event) = Undefined /\ Len(Built.values) > 18
     \/ Get(event, "actor") = Undefined /\ Get(event, "org") = Undefined
  /\ \E i \in 4..Len(Built.values) : Built.values[i] = Null

(***************************************************************************)
(* Further properties of loadEvents, checked under SpecLoad.               *)
(***************************************************************************)
\* Every value of every row of the batch is one the store takes: a number, a
\* string or null (undefined counts as null).
BatchBinds(batch) ==
  \A i \in 1..Len(batch) : \A j \in 1..Len(batch[i].values) :
    batch[i].values[j].t \in {"number", "string", "null", "undefined"}

\* The store after the given batches were committed to a new store, in order.
StoreAfter(batches) == RunAll([tb \in Tables |-> {}], prepareInserts, Concat(batches))

\* C17: when the transaction of a batch fails, that batch is the last one
\* handed to flush (no retry, no later batch), the run has ended in failure
\* with the lines after it unread (the last line read is the one whose row
\* filled the batch, or the last line of the file), and the store holds the rows committed by
\* the batches before it and nothing of the failed batch.
C17_FailedFlushIsFatal ==
  \A k \in 1..Len(flushLog) :
    ~BatchBinds(flushLog[k]) =>
      /\ k = Len(flushLog)
      /\ pc = "exited"
      /\ exitCode = 1
      /\ fatal.kind # "none"
      /\ dbFile.tables = StoreAfter(SubSeq(flushLog, 1, k - 1))
      /\ LET c == Len(Input) - Len(unread) IN
         /\ AcceptedRows(SubSeq(Input, 1, c)) = Concat(flushLog)
         /\ c = Len(Input) \/ IsAccepted(LineText[Input[c]])

\* The second batch failed after the first was committed.
C17_Witness ==
  /\ pc = "exited"
  /\ Len(flushLog) = 2
  /\ BatchBinds(flushLog[1])
  /\ ~BatchBinds(flushLog[2])
  /\ \E tb \in Tables : dbFile.tables[tb] # {}

\* The number of rows all tables of the store hold together.
TotalRows(tables) ==
  Cardinality(UNION {{<<tb, r>> : r \in tables[tb]} : tb \in DOMAIN tables})

\* C18: when loadEvents has returned, the total it returns (the one main
\* prints) is the number of rows the store holds.
C18_TotalIsStoreRowCount ==
  pc = "loaded" => l.count = TotalRows(dbFile.tables)

\* C20: after every line the batch holds fewer rows than the threshold: the
\* line whose row brings the batch to the threshold, and no other, hands the
\* whole batch to flush, and the loader goes on to the next line with an empty
\* batch.
C20_BatchBelowThreshold ==
  [][/\ (pc = "lines" /\ pc' = "loaded") => Len(l'.batch) < BATCH_SIZE
     /\ (pc = "lines" /\ Len(unread) > 1) =>
       LET line == LineText[Head(unread)]
           grown == IF IsAccepted(line) THEN Append(l.batch, BuildRow(line.value))
                    ELSE l.batch
       IN /\ Len(l.batch) < BATCH_SIZE
          /\ (flushLog' # flushLog) <=> (IsAccepted(line) /\ Len(grown) = BATCH_SIZE)
          /\ (flushLog' # flushLog) => flushLog' = Append(flushLog, grown)
          /\ pc' = "lines" =>
               /\ Len(l'.batch) < BATCH_SIZE
               /\ l'.batch = IF flushLog' # flushLog THEN <<>> ELSE grown]_vars

\* A batch of BATCH_SIZE rows was flushed and the loader goes on with an
\* empty batch.
C20_Witness ==
  /\ pc = "lines"
  /\ unread # <<>>
  /\ Len(flushLog) = 1
  /\ Len(flushLog[1]) = BATCH_SIZE
  /\ l.batch = <<>>
  /\ l.count = BATCH_SIZE

\* The row as the store holds it.
Stored(values) == [i \in 1..Len(values) |-> ToSql(values[i])]

\* The positions of the accepted rows of the table that carry the identifier.
SameKey(rows, tb, id) ==
  {i \in 1..Len(rows) : EVENT_SCHEMAS[rows[i].type].table = tb /\ rows[i].values[1] = id}

\* The least element of a set of positions.
First(S) == CHOOSE i \in S : \A j \in S : i <= j

\* C21 as stated: when loadEvents has returned, every stored row holds the
\* values of the first record in the input of its type and identifier.
C21_FirstRecordWins_AsStated ==
  pc = "loaded" =>
    LET rows == AcceptedRows(Input) IN
    \A tb \in DOMAIN dbFile.tables : \A r \in dbFile.tables[tb] :
      r = Stored(rows[First(SameKey(rows, tb, r[1]))].values)

\* C21 as amended: when loadEvents has returned, every stored row holds the
\* values of the first record in the input, among those of its type and
\* identifier that carry a creation timestamp, whether the records fall into
\* one batch or into different batches.
C21_FirstDatedRecordWins ==
  pc = "loaded" =>
    LET rows == AcceptedRows(Input) IN
    \A tb \in DOMAIN dbFile.tables : \A r \in dbFile.tables[tb] :
      LET dated == {i \in SameKey(rows, tb, r[1]) : ~IsNullish(rows[i].values[2])} IN
      /\ dated # {}
      /\ r = Stored(rows[First(dated)].values)

\* Two records of one type and identifier with different values were flushed
\* in different batches and the table holds the first.
C21_Witness ==
  /\ pc = "loaded"
  /\ Len(flushLog) = 2
  /\ \E i \in 1..Len(flushLog[1]) : \E j \in 1..Len(flushLog[2]) :
       /\ flushLog[1][i].type = flushLog[2][j].type
       /\ flushLog[1][i].values[1] = flushLog[2][j].values[1]
       /\ flushLog[1][i].values # flushLog[2][j].values
       /\ ~IsNullish(flushLog[1][i].values[2])
       /\ Stored(flushLog[1][i].values) \in dbFile.tables[EVENT_SCHEMAS[flushLog[1][i].type].table]

\* The lines handed to processLine so far.
Consumed == SubSeq(Input, 1, Len(Input) - Len(unread))

\* The sum of the counts.
RECURSIVE SumOf(_)
SumOf(f) ==
  IF DOMAIN f = {} THEN 0
  ELSE LET k == CHOOSE x \in DOMAIN f : TRUE IN
       f[k] + SumOf([x \in DOMAIN f \ {k} |-> f[x]])

\* C22: during loading and when it is over, the total is the sum of the
\* per-type counts and the number of rows pushed so far, one for each accepted
\* line handed to processLine; between lines that is the rows flushed plus the
\* rows buffered; and the types counted are those of the rows pushed, each
\* with the number of its rows.
C22_TotalIsSumOfCounts ==
  pc \in {"lines", "loaded"} =>
    LET rows == AcceptedRows(Consumed) IN
    /\ l.count = SumOf(l.typeCounts)
    /\ l.count = Len(rows)
    /\ pc = "lines" => l.count = Len(Concat(flushLog)) + Len(l.batch)
    /\ DOMAIN l.typeCounts = {rows[i].type : i \in 1..Len(rows)}
    /\ \A k \in DOMAIN l.typeCounts :
         l.typeCounts[k] = Cardinality({i \in 1..Len(rows) : rows[i].type = k})

\* Two rows of one type were pushed and flushed, and lines remain.
C22_Witness ==
  /\ pc = "lines"
  /\ l.count = 2
  /\ \E k \in DOMAIN l.typeCounts : l.typeCounts[k] = 2
  /\ Len(Concat(flushLog)) = 2
  /\ l.batch = <<>>

=============================================================================
